---- MODULE Spec2Model ----
(***************************************************************************)
(* The partition manager of the kafkaconsumer package: one goroutine per   *)
(* (topic, partition) that claims the partition in Zookeeper, resolves the *)
(* offset to resume from, forwards messages to the consumer manager, and   *)
(* on shutdown drains outstanding acknowledgements before releasing.       *)
(*                                                                         *)
(* Each manager of Mgrs belongs to a different consumer instance (its own  *)
(* process and application); all of them manage the same partition key.    *)
(* The Zookeeper claim node, the committed offset and the partition's log  *)
(* are shared.  The run goroutine of a manager is modelled one program     *)
(* location at a time (field pc); the application goroutine contributes    *)
(* the actions Ack and Interrupt.                                          *)
(***************************************************************************)
EXTENDS Integers, FiniteSets

\* ------------------------------------------------------------------ bounds
MaxLog == 2          \* messages ever in the partition: offsets 0..MaxLog-1
MaxLogHandover == 1  \* the same, when two managers run from the start
FixedOffset == 0     \* the fixed offset used when Offsets.Initial is neither marker
MaxRangeFails == 2   \* ErrOffsetOutOfRange answers counted per manager; more are not told apart

\* --------------------------------------------------------------- constants
OffsetNewest == -1   \* sarama.OffsetNewest
OffsetOldest == -2   \* sarama.OffsetOldest
NoOffset == -1       \* "none": no committed offset / nothing consumed yet

Mgrs == {"m1", "m2"}
Starter == "m1"
NoOwner == "nobody"
InitialPolicies == {OffsetNewest, OffsetOldest, FixedOffset}
\* the policies taken when two managers run from the start
HandoverPolicies == {OffsetNewest, FixedOffset}

\* tomb reasons: ErrStillAlive, nil (clean), or the claim's fatal error
ErrStillAlive == "ErrStillAlive"
NilReason == "nil"
ErrAlreadyOwner == "already owner"

VARIABLES
    pm,         \* pm[m]: the fields of partitionManager m, its tomb, the locals of run()
    owner,      \* Zookeeper: the instance owning the partition, or NoOwner
    committed,  \* offset store: the last offset set for the partition, or NoOffset
    logStart,   \* broker: oldest offset still retained
    logEnd,     \* broker: offset the next produced message will get
    budget,     \* producers: messages still to be published
    Initial,    \* config.Offsets.Initial
    hist        \* observations for the properties (never read by the program)

vars == <<pm, owner, committed, logStart, logEnd, budget, Initial, hist>>

\* ------------------------------------------------------------------- tomb
\* tomb.Kill: the first non-nil reason wins; ErrDying never changes the reason.
KillReason(old, new) ==
    IF old = ErrStillAlive \/ old = NilReason THEN new ELSE old

\* t.Err() != tomb.ErrStillAlive
Dying(m) == pm[m].reason # ErrStillAlive

\* a second close(processingDone) panics and takes the whole process down
Crashed(m) == pm[m].closes > 1

Dead(m) == pm[m].pc = "done"

\* close(): the value t.Wait() returns once run() has finished
CloseResult(m) == pm[m].reason

\* ------------------------------------------------------------ run(): helpers
\* lines 49-55: the offset handed to startPartitionConsumer
\* resuming at the committed offset itself
StartingOffsetNoIncrement(c, initial) ==
    IF c < 0 THEN initial ELSE c

\* lines 51-54 of run(): the offset the first ConsumePartition call is given
StartingOffset(c, initial) ==
    IF c < 0 THEN initial ELSE c + 1

\* NeedsDrain without the test for the "none" sentinel, comparing with >=
NeedsDrainNoSentinel(C, P) ==
    C >= P

\* NeedsDrain waiting also when the last consumed offset is already committed
NeedsDrainInclusive(C, P) ==
    C >= 0 /\ C >= P

\* lines 128-129: does waitForProcessing enter the select?
NeedsDrain(C, P) ==
    C >= 0 /\ C > P

\* line 161: does ack close processingDone?
ShouldSignal(reason, offset, lco) ==
    reason # ErrStillAlive /\ offset = lco

\* sarama's ConsumePartition answers ErrOffsetOutOfRange for an offset that is
\* neither a marker nor within the retained log
OffsetInRange(off) ==
    off = OffsetNewest \/ off = OffsetOldest \/ (off >= logStart /\ off <= logEnd)

\* sarama's ConsumePartition: the offset the consumer starts from
ChooseStartingOffset(off) ==
    IF off = OffsetNewest THEN logEnd
    ELSE IF off = OffsetOldest THEN logStart
    ELSE off

\* The deferred calls of run(), in the order they run when run() returns
\* from the given place.
AfterClaimFailedReleases == "release"   \* releasePartition deferred before the claim
AfterClaimFailed == "done"
AfterOffsetManagerFailedNoRelease == "done"   \* releasePartition deferred too late
AfterOffsetManagerFailed == "release"
AfterConsumerFailed == "wfp"
AfterConsumeLoopReleaseFirst == "release"   \* the claim given up with the consumer open
AfterConsumeLoopDrainFirst == "wfp"   \* the drain run with the consumer still open
AfterConsumeLoop == "close_pc"
AfterClosePc == "wfp"
AfterForwardErrorFatal == "close_pc"   \* a forwarded error ending the main loop
AfterForwardError == "consume"         \* lines 81-82, 89-90: back to the select
AfterDrain == "close_om"
AfterCloseOm == "release"
AfterRelease == "done"

\* claimPartition taking its own instance for just another owner
AfterOwnerReadNoSelfCheck(o, m) ==
    IF o = NoOwner THEN "claim_try" ELSE "claim_watch"

\* lines 187-200: where claimPartition goes on the owner it read
AfterOwnerRead(o, m) ==
    IF o = NoOwner THEN "claim_try"
    ELSE IF o = m THEN AfterClaimFailed
    ELSE "claim_watch"

\* claimPartition waiting again on the watch that has fired
AfterWatchChangedNoReread == "claim_watch"

\* lines 194-195: continue, that is read the owner again
AfterWatchChanged == "claim_read"

\* claimPartition ignoring the error of ClaimPartition
AfterClaimAttemptUnchecked(ok) ==
    "om_start"

\* lines 203-209: where claimPartition goes after the ClaimPartition call
AfterClaimAttempt(ok) ==
    IF ok THEN "om_start" ELSE "claim_read"

Set(m, r) == pm' = [pm EXCEPT ![m] = r]
SetH(m, r) == hist' = [hist EXCEPT ![m] = r]

Running(m) == ~Crashed(m)

\* every watch handed out by WatchPartitionOwner fires when the owner changes,
\* and wakes the goroutine parked on it
FireWatches(p) ==
    [n \in Mgrs |-> [p[n] EXCEPT
        !.changed = TRUE,
        !.pc = IF @ = "claim_blocked" THEN "claim_changed" ELSE @]]

\* ------------------------------------------------------------------- Init
InitMgr ==
    [pc |-> "claim_read", reason |-> ErrStillAlive,
     lastConsumedOffset |-> NoOffset, closes |-> 0,
     changed |-> FALSE, initialOffset |-> NoOffset,
     pos |-> NoOffset, msg |-> NoOffset]

\* a manager whose run() has returned after an interruption, before any claim
FinishedMgr == [InitMgr EXCEPT !.pc = "done", !.reason = NilReason]

\* a manager that claimed, was interrupted in startPartitionOffsetManager and
\* is at its deferred releasePartition
ReleasingMgr == [InitMgr EXCEPT !.pc = "release", !.reason = NilReason]

InitHist ==
    [claimed |-> 0, released |-> 0, omOpened |-> 0, omClosed |-> 0,
     pcOpened |-> 0, pcClosed |-> 0,
     firstDelivered |-> NoOffset, lastDelivered |-> NoOffset,
     lastAck |-> NoOffset, ackedLast |-> FALSE, inOrder |-> TRUE,
     doneBy |-> NoOffset, drainEnd |-> "none", drainC |-> NoOffset,
     ackAtDrain |-> NoOffset,
     killDelivered |-> NoOffset, killConsumed |-> NoOffset, ackedAtKill |-> FALSE, killed |-> FALSE,
     killAt |-> "none", sawSelf |-> FALSE, iterClaimCall |-> FALSE,
     errForwarded |-> FALSE,
     resolved |-> FALSE, resolvedFrom |-> NoOffset,
     attempted |-> FALSE, firstAttempt |-> NoOffset, rangeFails |-> 0,
     startPos |-> NoOffset, after |-> {}]

\* The manager under study starts; the manager of the other instance has
\* finished already, or holds the claim and is about to release it (it was
\* interrupted while starting its offset manager).  A claim node naming the
\* starting manager's own instance is one an earlier manager failed to release.
\* The partition is empty, or holds one message whose offset is committed.
Init ==
    /\ \/ /\ pm = [m \in Mgrs |-> IF m = Starter THEN InitMgr ELSE FinishedMgr]
          /\ hist = [m \in Mgrs |-> IF m = Starter THEN InitHist
                                    ELSE [InitHist EXCEPT !.killed = TRUE]]
          /\ owner \in {NoOwner, Starter}
       \/ /\ pm = [m \in Mgrs |-> IF m = Starter THEN InitMgr ELSE ReleasingMgr]
          /\ hist = [m \in Mgrs |-> IF m = Starter THEN InitHist
                                    ELSE [InitHist EXCEPT !.killed = TRUE, !.claimed = 1]]
          /\ owner \in Mgrs \ {Starter}
    /\ committed \in {NoOffset, 0}
    /\ logStart = 0
    /\ logEnd = committed + 1
    /\ budget = MaxLog - logEnd
    /\ Initial \in InitialPolicies

\* Two managers of different instances are assigned the partition at once.
HandoverInit ==
    /\ pm = [m \in Mgrs |-> InitMgr]
    /\ hist = [m \in Mgrs |-> InitHist]
    /\ owner = NoOwner
    /\ committed = NoOffset
    /\ logStart = 0
    /\ logEnd = 0
    /\ budget = MaxLogHandover
    /\ Initial \in HandoverPolicies

\* ---------------------------------------------------------- claimPartition
\* line 176 failing (177-178)
ClaimReadFailed(m) ==
    /\ Running(m) /\ pm[m].pc = "claim_read"
    /\ Set(m, [pm[m] EXCEPT !.pc = "claim_readwait"])
    /\ UNCHANGED <<owner, committed, logStart, logEnd, budget, Initial, hist>>

\* line 176 answering, and the branches on the owner (187-200); an owner equal
\* to this instance makes claimPartition return the fatal error, which run()
\* hands to t.Kill (33-35)
ClaimReadOwner(m) ==
    /\ Running(m) /\ pm[m].pc = "claim_read"
    /\ Set(m, [pm[m] EXCEPT
            !.pc = AfterOwnerRead(owner, m),
            !.changed = FALSE,
            !.reason = IF AfterOwnerRead(owner, m) = AfterClaimFailed
                       THEN KillReason(@, ErrAlreadyOwner) ELSE @])
    /\ SetH(m, [hist[m] EXCEPT !.sawSelf = @ \/ owner = m, !.iterClaimCall = FALSE])
    /\ UNCHANGED <<owner, committed, logStart, logEnd, budget, Initial>>

ClaimRead(m) == ClaimReadFailed(m) \/ ClaimReadOwner(m)

\* lines 179-184: the 1s timer fires
ClaimReadRetry(m) ==
    /\ Running(m) /\ pm[m].pc = "claim_readwait" /\ ~Dying(m)
    /\ Set(m, [pm[m] EXCEPT !.pc = "claim_read"])
    /\ UNCHANGED <<owner, committed, logStart, logEnd, budget, Initial, hist>>

\* lines 182-183, then 33-35 and the deferred t.Done()
ClaimReadDying(m) ==
    /\ Running(m) /\ pm[m].pc = "claim_readwait" /\ Dying(m)
    /\ Set(m, [pm[m] EXCEPT !.pc = AfterClaimFailed])
    /\ UNCHANGED <<owner, committed, logStart, logEnd, budget, Initial, hist>>

\* The select at lines 193-198.  Entered with a case ready, it takes a ready
\* case (any of them); entered with none ready, the goroutine parks and the
\* first of the two events to happen wakes it with its own case
\* (see FireWatches and Interrupt).
\* lines 194-195: the ownership watch has fired when the select is entered
ClaimWatchChanged(m) ==
    /\ Running(m) /\ pm[m].pc = "claim_watch" /\ pm[m].changed
    /\ Set(m, [pm[m] EXCEPT !.pc = AfterWatchChanged])
    /\ UNCHANGED <<owner, committed, logStart, logEnd, budget, Initial, hist>>

\* lines 196-197: the tomb is dying when the select is entered
ClaimWatchDying(m) ==
    /\ Running(m) /\ pm[m].pc = "claim_watch" /\ Dying(m)
    /\ Set(m, [pm[m] EXCEPT !.pc = AfterClaimFailed])
    /\ UNCHANGED <<owner, committed, logStart, logEnd, budget, Initial, hist>>

\* line 193: no case is ready, the goroutine parks
ClaimWatchBlock(m) ==
    /\ Running(m) /\ pm[m].pc = "claim_watch" /\ ~pm[m].changed /\ ~Dying(m)
    /\ Set(m, [pm[m] EXCEPT !.pc = "claim_blocked"])
    /\ UNCHANGED <<owner, committed, logStart, logEnd, budget, Initial, hist>>

\* lines 194-195: woken by the watch
ClaimWokenChanged(m) ==
    /\ Running(m) /\ pm[m].pc = "claim_changed"
    /\ Set(m, [pm[m] EXCEPT !.pc = AfterWatchChanged])
    /\ UNCHANGED <<owner, committed, logStart, logEnd, budget, Initial, hist>>

\* lines 196-197: woken by the tomb
ClaimWokenDying(m) ==
    /\ Running(m) /\ pm[m].pc = "claim_dying"
    /\ Set(m, [pm[m] EXCEPT !.pc = AfterClaimFailed])
    /\ UNCHANGED <<owner, committed, logStart, logEnd, budget, Initial, hist>>

\* lines 202, 208-209: ClaimPartition creates the claim node atomically
ClaimAttemptOk(m) ==
    /\ Running(m) /\ pm[m].pc = "claim_try"
    /\ owner = NoOwner
    /\ owner' = m
    /\ pm' = [FireWatches(pm) EXCEPT ![m].pc = AfterClaimAttempt(TRUE)]
    /\ SetH(m, [hist[m] EXCEPT !.claimed = @ + 1, !.iterClaimCall = TRUE,
                               !.after = {n \in Mgrs \ {m} : Dead(n)}])
    /\ UNCHANGED <<committed, logStart, logEnd, budget, Initial>>

\* lines 202-205: the node exists by now, or Zookeeper failed
ClaimAttemptFailed(m) ==
    /\ Running(m) /\ pm[m].pc = "claim_try"
    /\ Set(m, [pm[m] EXCEPT !.pc = AfterClaimAttempt(FALSE)])
    /\ SetH(m, [hist[m] EXCEPT !.iterClaimCall = TRUE])
    /\ UNCHANGED <<owner, committed, logStart, logEnd, budget, Initial>>

ClaimAttempt(m) == ClaimAttemptOk(m) \/ ClaimAttemptFailed(m)

\* ------------------------------------------------ startPartitionOffsetManager
\* line 104, and 44-45 on success
OffsetManagerStart(m) ==
    /\ Running(m) /\ pm[m].pc = "om_start"
    /\ \/ /\ Set(m, [pm[m] EXCEPT !.pc = "resolve"])
          /\ SetH(m, [hist[m] EXCEPT !.omOpened = @ + 1])
       \/ /\ Set(m, [pm[m] EXCEPT !.pc = "om_wait"])
          /\ UNCHANGED hist
    /\ UNCHANGED <<owner, committed, logStart, logEnd, budget, Initial>>

\* lines 111-112
OffsetManagerRetry(m) ==
    /\ Running(m) /\ pm[m].pc = "om_wait" /\ ~Dying(m)
    /\ Set(m, [pm[m] EXCEPT !.pc = "om_start"])
    /\ UNCHANGED <<owner, committed, logStart, logEnd, budget, Initial, hist>>

\* lines 109-110, then 40-42
OffsetManagerDying(m) ==
    /\ Running(m) /\ pm[m].pc = "om_wait" /\ Dying(m)
    /\ Set(m, [pm[m] EXCEPT !.pc = AfterOffsetManagerFailed])
    /\ UNCHANGED <<owner, committed, logStart, logEnd, budget, Initial, hist>>

\* lines 49-56
ResolveOffset(m) ==
    /\ Running(m) /\ pm[m].pc = "resolve"
    /\ Set(m, [pm[m] EXCEPT !.pc = "pc_start",
                            !.initialOffset = StartingOffset(committed, Initial)])
    /\ SetH(m, [hist[m] EXCEPT !.resolved = TRUE, !.resolvedFrom = committed])
    /\ UNCHANGED <<owner, committed, logStart, logEnd, budget, Initial>>

\* ---------------------------------------------------- startPartitionConsumer
\* lines 225-262
ConsumerStart(m) ==
    /\ Running(m) /\ pm[m].pc = "pc_start"
    /\ LET h == [hist[m] EXCEPT
                    !.attempted = TRUE,
                    !.firstAttempt = IF hist[m].attempted THEN @
                                     ELSE pm[m].initialOffset]
       IN
       \/ \* case nil
          /\ OffsetInRange(pm[m].initialOffset)
          /\ Set(m, [pm[m] EXCEPT !.pc = "consume",
                                  !.pos = ChooseStartingOffset(pm[m].initialOffset)])
          /\ SetH(m, [h EXCEPT !.pcOpened = @ + 1,
                               !.startPos = ChooseStartingOffset(pm[m].initialOffset)])
       \/ \* case sarama.ErrOffsetOutOfRange
          /\ ~OffsetInRange(pm[m].initialOffset)
          /\ Set(m, [pm[m] EXCEPT !.initialOffset = Initial])
          /\ SetH(m, [h EXCEPT !.rangeFails = IF @ < MaxRangeFails THEN @ + 1 ELSE @])
       \/ \* default: any other error
          /\ Set(m, [pm[m] EXCEPT !.pc = "pc_wait"])
          /\ SetH(m, h)
    /\ UNCHANGED <<owner, committed, logStart, logEnd, budget, Initial>>

\* lines 259-260
ConsumerRetry(m) ==
    /\ Running(m) /\ pm[m].pc = "pc_wait" /\ ~Dying(m)
    /\ Set(m, [pm[m] EXCEPT !.pc = "pc_start"])
    /\ UNCHANGED <<owner, committed, logStart, logEnd, budget, Initial, hist>>

\* lines 257-258, then 59-61
ConsumerDying(m) ==
    /\ Running(m) /\ pm[m].pc = "pc_wait" /\ Dying(m)
    /\ Set(m, [pm[m] EXCEPT !.pc = AfterConsumerFailed])
    /\ UNCHANGED <<owner, committed, logStart, logEnd, budget, Initial, hist>>

\* --------------------------------------------------------- run(): main loop
\* lines 67-68
ConsumeDying(m) ==
    /\ Running(m) /\ pm[m].pc = "consume" /\ Dying(m)
    /\ Set(m, [pm[m] EXCEPT !.pc = AfterConsumeLoop])
    /\ UNCHANGED <<owner, committed, logStart, logEnd, budget, Initial, hist>>

\* line 70: the partition consumer hands over its next message
ConsumeMessage(m) ==
    /\ Running(m) /\ pm[m].pc = "consume"
    /\ pm[m].pos >= logStart /\ pm[m].pos < logEnd
    /\ Set(m, [pm[m] EXCEPT !.pc = "forward", !.msg = pm[m].pos, !.pos = @ + 1])
    /\ UNCHANGED <<owner, committed, logStart, logEnd, budget, Initial, hist>>

\* line 72: the send on parent.messages completes, the application has the message
ForwardMessage(m) ==
    /\ Running(m) /\ pm[m].pc = "forward"
    /\ Set(m, [pm[m] EXCEPT !.pc = "store"])
    /\ SetH(m, [hist[m] EXCEPT
            !.firstDelivered = IF @ = NoOffset THEN pm[m].msg ELSE @,
            !.lastDelivered = pm[m].msg,
            !.ackedLast = FALSE])
    /\ UNCHANGED <<owner, committed, logStart, logEnd, budget, Initial>>

\* lines 75-76
ForwardDying(m) ==
    /\ Running(m) /\ pm[m].pc = "forward" /\ Dying(m)
    /\ Set(m, [pm[m] EXCEPT !.pc = AfterConsumeLoop, !.msg = NoOffset])
    /\ UNCHANGED <<owner, committed, logStart, logEnd, budget, Initial, hist>>

\* storing the offset the consumer handle will deliver next
StoredOffsetNext(msg) == msg + 1

\* line 73: the value stored is msg.Offset
StoredOffset(msg) == msg

\* line 73
StoreLastConsumed(m) ==
    /\ Running(m) /\ pm[m].pc = "store"
    /\ Set(m, [pm[m] EXCEPT !.pc = "consume", !.lastConsumedOffset = StoredOffset(pm[m].msg),
                            !.msg = NoOffset])
    /\ UNCHANGED <<owner, committed, logStart, logEnd, budget, Initial, hist>>

\* line 79: an error arrives from offsetManager.Errors()
OffsetManagerError(m) ==
    /\ Running(m) /\ pm[m].pc = "consume"
    /\ Set(m, [pm[m] EXCEPT !.pc = "forward_err"])
    /\ UNCHANGED <<owner, committed, logStart, logEnd, budget, Initial, hist>>

\* line 87: an error arrives from pc.Errors()
ConsumerError(m) ==
    /\ Running(m) /\ pm[m].pc = "consume"
    /\ Set(m, [pm[m] EXCEPT !.pc = "forward_err"])
    /\ UNCHANGED <<owner, committed, logStart, logEnd, budget, Initial, hist>>

\* lines 81 and 89: the send on parent.errors completes
ForwardError(m) ==
    /\ Running(m) /\ pm[m].pc = "forward_err"
    /\ Set(m, [pm[m] EXCEPT !.pc = AfterForwardError])
    /\ SetH(m, [hist[m] EXCEPT !.errForwarded = TRUE])
    /\ UNCHANGED <<owner, committed, logStart, logEnd, budget, Initial>>

\* lines 83-84 and 91-92
ForwardErrorDying(m) ==
    /\ Running(m) /\ pm[m].pc = "forward_err" /\ Dying(m)
    /\ Set(m, [pm[m] EXCEPT !.pc = AfterConsumeLoop])
    /\ UNCHANGED <<owner, committed, logStart, logEnd, budget, Initial, hist>>

\* ------------------------------------------------------ the deferred calls
\* lines 268-272
ClosePartitionConsumer(m) ==
    /\ Running(m) /\ pm[m].pc = "close_pc"
    /\ Set(m, [pm[m] EXCEPT !.pc = AfterClosePc])
    /\ SetH(m, [hist[m] EXCEPT !.pcClosed = @ + 1])
    /\ UNCHANGED <<owner, committed, logStart, logEnd, budget, Initial>>

\* lines 125-129 and 139-141
WaitForProcessing(m) ==
    /\ Running(m) /\ pm[m].pc = "wfp"
    /\ IF NeedsDrain(pm[m].lastConsumedOffset, committed)
       THEN /\ Set(m, [pm[m] EXCEPT !.pc = "drain_wait"])
            /\ SetH(m, [hist[m] EXCEPT !.drainC = pm[m].lastConsumedOffset,
                                       !.ackAtDrain = hist[m].lastAck,
                                       !.drainEnd = "waiting"])
       ELSE /\ Set(m, [pm[m] EXCEPT !.pc = AfterDrain])
            /\ SetH(m, [hist[m] EXCEPT !.drainC = pm[m].lastConsumedOffset,
                                       !.ackAtDrain = hist[m].lastAck,
                                       !.drainEnd = "skipped"])
    /\ UNCHANGED <<owner, committed, logStart, logEnd, budget, Initial>>

\* lines 133-134
DrainSignalled(m) ==
    /\ Running(m) /\ pm[m].pc = "drain_wait" /\ pm[m].closes > 0
    /\ Set(m, [pm[m] EXCEPT !.pc = AfterDrain])
    /\ SetH(m, [hist[m] EXCEPT !.drainEnd = "signal"])
    /\ UNCHANGED <<owner, committed, logStart, logEnd, budget, Initial>>

\* lines 135-137: MaxProcessingTime elapsed before processingDone was closed
DrainTimeout(m) ==
    /\ Running(m) /\ pm[m].pc = "drain_wait" /\ pm[m].closes = 0
    /\ Set(m, [pm[m] EXCEPT !.pc = AfterDrain])
    /\ SetH(m, [hist[m] EXCEPT !.drainEnd = "timeout"])
    /\ UNCHANGED <<owner, committed, logStart, logEnd, budget, Initial>>

\* line 45: the deferred offsetManager.Close()
CloseOffsetManager(m) ==
    /\ Running(m) /\ pm[m].pc = "close_om"
    /\ Set(m, [pm[m] EXCEPT !.pc = AfterCloseOm])
    /\ SetH(m, [hist[m] EXCEPT !.omClosed = @ + 1])
    /\ UNCHANGED <<owner, committed, logStart, logEnd, budget, Initial>>

\* lines 275-281, then the deferred t.Done()
ReleasePartition(m) ==
    /\ Running(m) /\ pm[m].pc = "release"
    /\ SetH(m, [hist[m] EXCEPT !.released = @ + 1])
    /\ \/ /\ owner = m
          /\ owner' = NoOwner
          /\ pm' = [FireWatches(pm) EXCEPT ![m].pc = AfterRelease]
       \/ \* ReleasePartition failed: logged, the claim node stays
          /\ Set(m, [pm[m] EXCEPT !.pc = AfterRelease])
          /\ UNCHANGED owner
    /\ UNCHANGED <<committed, logStart, logEnd, budget, Initial>>

\* ------------------------------------------------- the application's calls
ConsumingPcs == {"consume", "forward", "store", "forward_err"}

\* where run() is when interrupt() is first called
KillPlace(pc) ==
    IF pc = "claim_blocked" THEN "claim wait"
    ELSE IF pc \in ConsumingPcs THEN "consuming"
    ELSE "elsewhere"

\* lines 146-148 (and the first half of close(), 151-152)
Interrupt(m) ==
    /\ Running(m) /\ ~Dead(m)
    /\ Set(m, [pm[m] EXCEPT !.reason = KillReason(@, NilReason),
                            !.pc = IF @ = "claim_blocked" THEN "claim_dying" ELSE @])
    /\ SetH(m, IF hist[m].killed THEN hist[m]
               ELSE [hist[m] EXCEPT !.killed = TRUE,
                                    !.killAt = KillPlace(pm[m].pc),
                                    !.killDelivered = hist[m].lastDelivered,
                                    !.killConsumed = pm[m].lastConsumedOffset,
                                    !.ackedAtKill = hist[m].ackedLast])
    /\ UNCHANGED <<owner, committed, logStart, logEnd, budget, Initial>>

\* the offset manager handle is open: SetOffset reaches the offset store
HandleOpen(m) == hist[m].omOpened > hist[m].omClosed

\* lines 158-164, for a message the application received from this manager.
\* SetOffset stores the offset it is given, whatever was stored before, and
\* reaches the offset store while the handle is open.  The two statements of
\* ack are taken as one step.  A manager that has terminated is removed by
\* the consumer manager and is no longer handed acknowledgements.
Ack(m, offset) ==
    /\ Running(m) /\ ~Dead(m)
    /\ hist[m].firstDelivered # NoOffset
    /\ offset >= hist[m].firstDelivered /\ offset <= hist[m].lastDelivered
    /\ committed' = IF HandleOpen(m) THEN offset ELSE committed
    /\ IF ShouldSignal(pm[m].reason, offset, pm[m].lastConsumedOffset)
       THEN /\ Set(m, [pm[m] EXCEPT !.closes = @ + 1])
            /\ SetH(m, [hist[m] EXCEPT
                    !.lastAck = offset,
                    !.ackedLast = @ \/ offset = hist[m].lastDelivered,
                    !.inOrder = @ /\ offset = (IF hist[m].lastAck = NoOffset
                                               THEN hist[m].firstDelivered
                                               ELSE hist[m].lastAck + 1),
                    !.doneBy = IF pm[m].closes = 0 THEN offset ELSE @])
       ELSE /\ SetH(m, [hist[m] EXCEPT
                    !.lastAck = offset,
                    !.ackedLast = @ \/ offset = hist[m].lastDelivered,
                    !.inOrder = @ /\ offset = (IF hist[m].lastAck = NoOffset
                                               THEN hist[m].firstDelivered
                                               ELSE hist[m].lastAck + 1)])
            /\ UNCHANGED pm
    /\ UNCHANGED <<owner, logStart, logEnd, budget, Initial>>

\* ------------------------------------------------------------- the broker
Produce ==
    /\ budget > 0
    /\ logEnd' = logEnd + 1
    /\ budget' = budget - 1
    /\ UNCHANGED <<pm, owner, committed, logStart, Initial, hist>>

\* retention removes the oldest message
Expire ==
    /\ logStart < logEnd
    /\ logStart' = logStart + 1
    /\ UNCHANGED <<pm, owner, committed, logEnd, budget, Initial, hist>>

\* ------------------------------------------------------------------- Next
RunStep(m) ==
    \/ ClaimRead(m) \/ ClaimReadRetry(m) \/ ClaimReadDying(m)
    \/ ClaimWatchChanged(m) \/ ClaimWatchDying(m) \/ ClaimWatchBlock(m)
    \/ ClaimWokenChanged(m) \/ ClaimWokenDying(m) \/ ClaimAttempt(m)
    \/ OffsetManagerStart(m) \/ OffsetManagerRetry(m) \/ OffsetManagerDying(m)
    \/ ResolveOffset(m)
    \/ ConsumerStart(m) \/ ConsumerRetry(m) \/ ConsumerDying(m)
    \/ ConsumeDying(m) \/ ConsumeMessage(m) \/ ForwardMessage(m) \/ ForwardDying(m)
    \/ StoreLastConsumed(m)
    \/ OffsetManagerError(m) \/ ConsumerError(m) \/ ForwardError(m) \/ ForwardErrorDying(m)
    \/ ClosePartitionConsumer(m) \/ WaitForProcessing(m)
    \/ DrainSignalled(m) \/ DrainTimeout(m)
    \/ CloseOffsetManager(m) \/ ReleasePartition(m)

Next ==
    \/ \E m \in Mgrs : RunStep(m)
    \/ \E m \in Mgrs : Interrupt(m)
    \/ \E m \in Mgrs : \E offset \in 0..(logEnd - 1) : Ack(m, offset)
    \/ Produce
    \/ Expire

Spec == Init /\ [][Next]_vars

HandoverSpec == HandoverInit /\ [][Next]_vars

TypeOK ==
    /\ owner \in {NoOwner} \cup Mgrs
    /\ committed \in NoOffset..(logEnd - 1)
    /\ logStart \in 0..logEnd /\ budget >= 0
    /\ \A m \in Mgrs : pm[m].lastConsumedOffset \in NoOffset..(logEnd - 1)

\* The run goroutine is scheduled as long as it can take a step, timers fire,
\* and a select whose cancellation case is ready over and over takes it in the end.
DyingStep(m) ==
    \/ ClaimReadDying(m) \/ ClaimWatchDying(m) \/ ClaimWokenDying(m)
    \/ OffsetManagerDying(m)
    \/ ConsumerDying(m) \/ ConsumeDying(m) \/ ForwardDying(m) \/ ForwardErrorDying(m)

Fairness == \A m \in Mgrs : WF_vars(RunStep(m)) /\ SF_vars(DyingStep(m))

FairSpec == Spec /\ Fairness

\* ownership reads and claim attempts that are retried for ever do not fail
\* for ever
ClaimFairness ==
    \A m \in Mgrs : SF_vars(ClaimReadOwner(m)) /\ SF_vars(ClaimAttemptOk(m))

\* a manager starts while the other instance, about to release, owns the
\* partition
WaitingInit ==
    /\ pm = [m \in Mgrs |-> IF m = Starter THEN InitMgr ELSE ReleasingMgr]
    /\ hist = [m \in Mgrs |-> IF m = Starter THEN InitHist
                              ELSE [InitHist EXCEPT !.killed = TRUE, !.claimed = 1]]
    /\ owner \in Mgrs \ {Starter}
    /\ committed = NoOffset
    /\ logStart = 0
    /\ logEnd = 0
    /\ budget = MaxLogHandover
    /\ Initial \in InitialPolicies

ClaimFairSpec == WaitingInit /\ [][Next]_vars /\ Fairness /\ ClaimFairness

\* ---------------------------------------------------------------- claims
\* the manager is past claimPartition and before the end of releasePartition
Holds(m) ==
    pm[m].pc \in {"om_start", "om_wait", "resolve", "pc_start", "pc_wait",
                  "consume", "forward", "store", "forward_err",
                  "close_pc", "wfp", "drain_wait", "close_om", "release"}

\* the drain wait (the select of waitForProcessing) was entered and has ended
DrainWaited(m) == hist[m].drainEnd \in {"signal", "timeout"}

\* the smallest offset the manager forwarded that was not acknowledged
\* (for an application acknowledging in delivery order), or -1
SmallestUnacked(m) ==
    IF hist[m].lastDelivered = NoOffset THEN NoOffset
    ELSE IF hist[m].lastAck = NoOffset THEN hist[m].firstDelivered
    ELSE IF hist[m].lastAck < hist[m].lastDelivered THEN hist[m].lastAck + 1
    ELSE NoOffset

\* C1: the claim, the offset manager and the partition consumer are each
\* closed/released at most once, never when not acquired, and exactly once
\* when acquired by the time run() has returned.
C1_CleanupExactlyOnce ==
    \A m \in Mgrs :
        /\ hist[m].claimed <= 1 /\ hist[m].omOpened <= 1 /\ hist[m].pcOpened <= 1
        /\ hist[m].released <= hist[m].claimed
        /\ hist[m].omClosed <= hist[m].omOpened
        /\ hist[m].pcClosed <= hist[m].pcOpened
        /\ Dead(m) => /\ hist[m].released = hist[m].claimed
                      /\ hist[m].omClosed = hist[m].omOpened
                      /\ hist[m].pcClosed = hist[m].pcOpened

C1_Witness ==
    /\ Dead(Starter) /\ hist[Starter].released = 1
    /\ hist[Starter].omClosed = 1 /\ hist[Starter].pcClosed = 1

\* C2: once interrupt() has been called, run() terminates (leaving aside a
\* process taken down by a panic).
C2_InterruptTerminates ==
    \A m \in Mgrs : (Dying(m) /\ ~Crashed(m)) ~> (Dead(m) \/ Crashed(m))

\* C3: a manager that takes over after another one has terminated starts no
\* later than the smallest offset its predecessor forwarded without it being
\* acknowledged, when acknowledgements are in delivery order and nothing expired.
C3_NoSkipAcrossHandover ==
    \A m \in Mgrs : \A n \in Mgrs :
        ( /\ m \in hist[n].after /\ hist[n].pcOpened = 1
          /\ hist[m].inOrder /\ hist[n].inOrder /\ logStart = 0
          /\ SmallestUnacked(m) # NoOffset )
        => hist[n].startPos <= SmallestUnacked(m)

\* C4: at most one manager is past claimPartition and before releasePartition.
C4_AtMostOneHolder ==
    Cardinality({m \in Mgrs : Holds(m)}) <= 1

C4_Witness ==
    \E m \in Mgrs : \E n \in Mgrs : Holds(m) /\ pm[n].pc = "claim_try"

\* C5: processingDone is closed at most once, whatever acks are issued.
C5_ClosedAtMostOnce ==
    \A m \in Mgrs : pm[m].closes <= 1

\* C6: a drain wait ended by processingDone was ended by the ack of the final
\* value of lastConsumedOffset.
C6_DrainEndsByFinalAck ==
    \A m \in Mgrs :
        hist[m].drainEnd = "signal" => hist[m].doneBy = hist[m].drainC

\* C7: whenever the application has received the message with offset o,
\* lastConsumedOffset >= o.
C7_StoreBeforeObservable ==
    \A m \in Mgrs : pm[m].lastConsumedOffset >= hist[m].lastDelivered

\* C8: with lastConsumedOffset still "none", waitForProcessing never waits.
C8_NoDrainWithoutForward ==
    \A m \in Mgrs :
        pm[m].lastConsumedOffset = NoOffset
        => pm[m].pc # "drain_wait" /\ ~DrainWaited(m)

C8_Witness ==
    /\ pm[Starter].lastConsumedOffset = NoOffset /\ hist[Starter].drainEnd = "skipped"
    /\ hist[Starter].pcOpened = 1 /\ committed >= 0

\* the last forwarded offset was acknowledged before interrupt(), and nothing
\* was forwarded since
AckedBeforeInterrupt(m) ==
    /\ hist[m].ackedAtKill
    /\ hist[m].lastDelivered = hist[m].killDelivered

\* C9 as stated: if the last consumed offset was acknowledged before
\* interrupt() and nothing is forwarded afterwards, waitForProcessing does not wait.
C9_AckedBeforeInterruptSkips ==
    \A m \in Mgrs :
        AckedBeforeInterrupt(m)
        => pm[m].pc # "drain_wait" /\ ~DrainWaited(m)

\* C9 amended: the same, when moreover the ack of the last consumed offset is
\* the most recent ack at the time waitForProcessing reads the committed offset.
C9_LastAckSkips ==
    \A m \in Mgrs :
        ( /\ AckedBeforeInterrupt(m)
          /\ hist[m].drainEnd # "none"
          /\ hist[m].ackAtDrain = hist[m].drainC )
        => hist[m].drainEnd = "skipped"

C9_Witness ==
    /\ AckedBeforeInterrupt(Starter)
    /\ hist[Starter].drainEnd = "skipped"
    /\ hist[Starter].drainC >= 0
    /\ hist[Starter].ackAtDrain = hist[Starter].drainC

\* C10: a drain wait during which the last consumed offset is never
\* acknowledged ends by the MaxProcessingTime timeout.
C10_UnackedDrainTimesOut ==
    \A m \in Mgrs :
        (Dead(m) /\ DrainWaited(m) /\ ~hist[m].ackedLast)
        => hist[m].drainEnd = "timeout"

\* C11: an ownership read answering this instance's own identity ends the
\* manager at once with the fatal error as the result of close(), without a
\* ClaimPartition call in that iteration and without any ReleasePartition call.
C11_SelfOwnerIsFatal ==
    \A m \in Mgrs :
        hist[m].sawSelf
        => /\ Dead(m) /\ CloseResult(m) = ErrAlreadyOwner
           /\ ~hist[m].iterClaimCall
           /\ hist[m].claimed = 0 /\ hist[m].released = 0

C11_Witness ==
    hist[Starter].sawSelf /\ Dead(Starter) /\ hist[Starter].killed

\* C12: a manager interrupted while parked in the claim wait (the partition
\* is owned by another instance) goes straight to its end: close() reports
\* no failure, no ClaimPartition call follows, nothing was claimed, released
\* or opened.
C12_InterruptedClaimWaitIsClean ==
    \A m \in Mgrs :
        hist[m].killAt = "claim wait"
        => /\ pm[m].pc \in {"claim_dying", "done"}
           /\ Dead(m) => CloseResult(m) = NilReason
           /\ hist[m].claimed = 0 /\ hist[m].released = 0
           /\ hist[m].omOpened = 0 /\ hist[m].pcOpened = 0

C12_Witness ==
    /\ hist[Starter].killAt = "claim wait" /\ Dead(Starter)
    /\ owner \in Mgrs \ {Starter}

\* C13: the first ConsumePartition call is given the committed offset plus
\* one when a committed offset was read, whatever Offsets.Initial is, and
\* Offsets.Initial itself when none was read.
C13_FirstAttemptOffset ==
    \A m \in Mgrs :
        hist[m].attempted
        => /\ hist[m].resolved
           /\ hist[m].resolvedFrom >= 0
                => hist[m].firstAttempt = hist[m].resolvedFrom + 1
           /\ hist[m].resolvedFrom < 0 => hist[m].firstAttempt = Initial

C13_Witness ==
    /\ hist[Starter].attempted /\ hist[Starter].resolvedFrom = 0
    /\ hist[Starter].firstAttempt = 1 /\ Initial = OffsetNewest

\* C14: a manager gets ErrOffsetOutOfRange from ConsumePartition at most
\* once: the attempt after the fallback to Offsets.Initial does not fail
\* the same way again.
C14_OneFallback ==
    \A m \in Mgrs : hist[m].rangeFails <= 1

\* C15: lastConsumedOffset never decreases while the manager lives, and it is
\* always the sentinel or the offset of a message that was forwarded to the
\* application.
C15_LastConsumedMonotonic ==
    /\ [](\A m \in Mgrs :
            \/ pm[m].lastConsumedOffset = NoOffset
            \/ /\ hist[m].firstDelivered # NoOffset
               /\ pm[m].lastConsumedOffset \in
                      hist[m].firstDelivered..hist[m].lastDelivered)
    /\ [][\A m \in Mgrs :
            pm'[m].lastConsumedOffset >= pm[m].lastConsumedOffset]_vars

C15_Witness ==
    /\ pm[Starter].lastConsumedOffset = 1 /\ hist[Starter].firstDelivered = 0
    /\ hist[Starter].lastAck = 0

\* run() has left its main loop or a startup step and runs its deferred calls
Terminating(m) ==
    pm[m].pc \in {"close_pc", "wfp", "drain_wait", "close_om", "release", "done"}

\* C16: a manager ends only when it was interrupted or read itself as the
\* owner while claiming, and close() reports a failure only in the second
\* case: forwarded errors, failed retries, a drain timeout and failing
\* cleanup calls neither end the manager nor change the result.
C16_FailureOnlyFromClaiming ==
    \A m \in Mgrs :
        /\ Terminating(m) => hist[m].killed \/ hist[m].sawSelf
        /\ Dead(m) =>
              CloseResult(m) = IF hist[m].sawSelf THEN ErrAlreadyOwner
                               ELSE NilReason

C16_Witness ==
    /\ Dead(Starter) /\ CloseResult(Starter) = NilReason
    /\ hist[Starter].errForwarded /\ hist[Starter].drainEnd = "timeout"
    /\ hist[Starter].released = 1 /\ owner = Starter

\* the drain of waitForProcessing has ended, one way or another
DrainOver(m) == hist[m].drainEnd \in {"skipped", "signal", "timeout"}

\* C17, as the specification states it: the consumer handle is still open
\* during the whole drain wait, since the drain precedes every cleanup call.
C17_ConsumerOpenDuringDrain ==
    \A m \in Mgrs :
        pm[m].pc = "drain_wait" /\ hist[m].pcOpened > 0
        => hist[m].pcClosed < hist[m].pcOpened

\* C17, amended: shutdown runs close consumer handle, drain, close offset
\* handle, release claim, in this order: the consumer is closed before the
\* drain starts; during the drain the offset handle is open and the claim is
\* not released; the offset handle is closed only after the drain has ended,
\* and the claim is released last.
C17_ShutdownOrder ==
    \A m \in Mgrs :
        /\ pm[m].pc \in {"wfp", "drain_wait"}
           => /\ hist[m].pcClosed = hist[m].pcOpened
              /\ hist[m].omOpened = 1 /\ hist[m].omClosed = 0
              /\ hist[m].released = 0
        /\ hist[m].omClosed > 0
           => DrainOver(m) /\ hist[m].pcClosed = hist[m].pcOpened
        /\ hist[m].released > 0
           => /\ hist[m].omClosed = hist[m].omOpened
              /\ hist[m].pcClosed = hist[m].pcOpened
              /\ hist[m].omOpened > 0 => DrainOver(m)

C17_Witness ==
    /\ Dead(Starter) /\ hist[Starter].drainEnd = "signal"
    /\ hist[Starter].pcClosed = 1 /\ hist[Starter].omClosed = 1
    /\ hist[Starter].released = 1 /\ owner = NoOwner

\* C18: when interrupt() is called while run() is in its main loop, no
\* message is forwarded and lastConsumedOffset is not written after the
\* call: both keep the value they had at the call, and the drain works on
\* that value.
C18_NoProgressAfterInterrupt ==
    \A m \in Mgrs :
        hist[m].killAt = "consuming"
        => /\ hist[m].lastDelivered = hist[m].killDelivered
           /\ pm[m].lastConsumedOffset = hist[m].killConsumed
           /\ hist[m].drainEnd # "none" => hist[m].drainC = hist[m].killConsumed

\* the sarama partition consumer of the manager is open
ConsumerOpen(m) == hist[m].pcOpened > hist[m].pcClosed

\* C19: whenever a manager's consumer is open or the manager is forwarding a
\* message, the claim in the coordination service names that manager and has
\* not been released by it; so at most one manager has the partition's
\* consumer open.
C19_ConsumeOnlyUnderClaim ==
    /\ \A m \in Mgrs :
          ConsumerOpen(m) \/ pm[m].pc \in {"forward", "store"}
          => owner = m /\ hist[m].claimed = 1 /\ hist[m].released = 0
    /\ Cardinality({m \in Mgrs : ConsumerOpen(m)}) <= 1

C19_Witness ==
    \E m \in Mgrs : \E n \in Mgrs \ {m} :
        /\ ConsumerOpen(m) /\ pm[m].pc = "forward"
        /\ hist[n].pcOpened = 1 /\ hist[n].released = 1

\* the ownership watch of the manager has fired while it waits on it
WatchFired(m) ==
    \/ pm[m].pc = "claim_changed"
    \/ pm[m].pc = "claim_watch" /\ pm[m].changed

\* C20: a manager waiting in claimPartition whose watch has fired because
\* the owner released the claim eventually holds the claim, unless it is
\* interrupted; ownership reads and claim attempts are assumed not to fail
\* for ever.
C20_HandoverLiveness ==
    \A m \in Mgrs :
        (WatchFired(m) /\ owner = NoOwner)
            ~> (hist[m].claimed = 1 \/ hist[m].killed)

\* the manager, parked on its watch, has been woken by the owner's release
C20_Witness ==
    /\ pm[Starter].pc = "claim_changed" /\ ~hist[Starter].killed
    /\ owner = NoOwner
    /\ \E n \in Mgrs \ {Starter} : hist[n].released = 1 /\ Dead(n)

====
